---- MODULE Spec2Model ----
(***************************************************************************)
(* A model of RevolutConverter (src/src/converters/revolutConverter.ts):   *)
(* the conversion of a Revolut export (invest or crypto layout) into a     *)
(* Ghostfolio export, row by row, with one awaited security lookup per     *)
(* row and the outcome delivered through a success or an error callback.   *)
(*                                                                         *)
(* A text is a sequence of one-character strings, so that lower-casing,    *)
(* substring search, trimming and number parsing are computed, not         *)
(* assumed.  A JavaScript value is a tagged record: Str(text), Num(n),     *)
(* NaN or Undefined.  Numerals in the inputs are integers.                 *)
(***************************************************************************)
EXTENDS Integers, Sequences, FiniteSets, TLC

\* The largest number of data lines (lines after the header) of an input.
MaxRows == 2

---------------------------------------------------------------------------
\* JavaScript values.

Str(s) == [k |-> "string", s |-> s]
Num(n) == [k |-> "number", n |-> n]
NaN == [k |-> "NaN"]
Undefined == [k |-> "undefined"]

IsStr(v) == v.k = "string"
IsNum(v) == v.k = "number"

Range(f) == {f[i] : i \in DOMAIN f}

---------------------------------------------------------------------------
\* Texts of the program and of the inputs.

UpperCase == <<"A", "B", "C", "D", "E", "F", "G", "H", "I", "J", "K", "L", "M",
               "N", "O", "P", "Q", "R", "S", "T", "U", "V", "W", "X", "Y", "Z">>
LowerCase == <<"a", "b", "c", "d", "e", "f", "g", "h", "i", "j", "k", "l", "m",
               "n", "o", "p", "q", "r", "s", "t", "u", "v", "w", "x", "y", "z">>
Digits == <<"0", "1", "2", "3", "4", "5", "6", "7", "8", "9">>

\* The type labels of the input lines, as the broker writes them.
T_BuyMarket == <<"B", "U", "Y", " ", "-", " ", "M", "A", "R", "K", "E", "T">>
T_Sell == <<"S", "e", "l", "l">>
T_Dividend == <<"D", "I", "V", "I", "D", "E", "N", "D">>
T_CustodyFee == <<"C", "U", "S", "T", "O", "D", "Y", " ", "F", "E", "E">>
T_CashWithdrawal == <<"C", "A", "S", "H", " ", "W", "I", "T", "H", "D", "R", "A", "W", "A", "L">>
T_Merger == <<"M", "E", "R", "G", "E", "R", " ", "-", " ", "S", "T", "O", "C", "K">>
T_Send == <<"S", "e", "n", "d">>

TypeTexts ==
    {T_BuyMarket, T_Sell, T_Dividend, T_CustodyFee, T_CashWithdrawal,
     T_Merger, T_Send}

\* The numeric cells of an input line: its quantity and its amount (the
\* total amount of an invest line, the price and the value of a crypto line).
T_Two == <<"2">>
T_MinusFive == <<"-", "$", "5">>
T_Empty == <<>>

CellVariants ==
    {[quantity |-> T_Two, amount |-> T_MinusFive],
     [quantity |-> T_Empty, amount |-> T_Empty]}

T_AAPL == <<"A", "A", "P", "L">>
T_BTC == <<"B", "T", "C">>
T_GBX == <<"G", "B", "X">>

\* Literals of the source.
L_buy == <<"b", "u", "y">>
L_stock_split == <<"s", "t", "o", "c", "k", " ", "s", "p", "l", "i", "t">>
L_sell == <<"s", "e", "l", "l">>
L_dividend == <<"d", "i", "v", "i", "d", "e", "n", "d">>
L_fee == <<"f", "e", "e">>
L_GBX == <<"G", "B", "X">>
L_GBp == <<"G", "B", "p">>
L_EUR == <<"E", "U", "R">>
L_USD == <<"U", "S", "D">>
L_GBP == <<"G", "B", "P">>
L_SEK == <<"S", "E", "K">>
L_Revolut == <<"R", "e", "v", "o", "l", "u", "t", " ">>

ignoredRecordTypes ==
    << <<"t", "r", "a", "n", "s", "f", "e", "r", " ", "f", "r", "o", "m">>,
       <<"w", "i", "t", "h", "d", "r", "a", "w", "a", "l">>,
       <<"t", "o", "p", "-", "u", "p">>,
       <<"s", "t", "a", "k", "e">>,
       <<"s", "e", "n", "d">>,
       <<"r", "e", "c", "e", "i", "v", "e">> >>

---------------------------------------------------------------------------
\* String operations of the JavaScript runtime, as the source uses them.

LowerChar(c) ==
    IF c \in Range(UpperCase)
    THEN LowerCase[CHOOSE i \in DOMAIN UpperCase : UpperCase[i] = c]
    ELSE c

UpperChar(c) ==
    IF c \in Range(LowerCase)
    THEN UpperCase[CHOOSE i \in DOMAIN LowerCase : LowerCase[i] = c]
    ELSE c

toLocaleLowerCase(s) == [i \in DOMAIN s |-> LowerChar(s[i])]

toLocaleUpperCase(s) == [i \in DOMAIN s |-> UpperChar(s[i])]

\* Whether t occurs in s at the 0-based position i.
OccursAt(s, t, i) == \A j \in 1..Len(t) : s[i + j] = t[j]

RECURSIVE indexOfFrom(_, _, _)
indexOfFrom(s, t, i) ==
    IF i + Len(t) > Len(s) THEN -1
    ELSE IF OccursAt(s, t, i) THEN i
    ELSE indexOfFrom(s, t, i + 1)

\* s.indexOf(t): the 0-based position of the first occurrence of t, or -1.
indexOf(s, t) == indexOfFrom(s, t, 0)

IsSpace(c) == c = " "

\* The characters U+20AC and U+00A3, each one character of a text.
EuroSign == "U+20AC"
PoundSign == "U+00A3"

RECURSIVE trimStart(_)
trimStart(s) ==
    IF s # <<>> /\ IsSpace(Head(s)) THEN trimStart(Tail(s)) ELSE s

RECURSIVE trimEnd(_)
trimEnd(s) ==
    IF s # <<>> /\ IsSpace(s[Len(s)]) THEN trimEnd(SubSeq(s, 1, Len(s) - 1)) ELSE s

trim(s) == trimEnd(trimStart(s))

\* s.replace(/[$]/g, ''): every dollar sign removed.
removeDollars(s) == SelectSeq(s, LAMBDA c : c # "$")

IsDigit(c) == c \in Range(Digits)

DigitValue(c) == (CHOOSE i \in DOMAIN Digits : Digits[i] = c) - 1

RECURSIVE leadingDigits(_)
leadingDigits(s) ==
    IF s # <<>> /\ IsDigit(Head(s)) THEN <<Head(s)>> \o leadingDigits(Tail(s)) ELSE <<>>

RECURSIVE decimalValue(_, _)
decimalValue(ds, acc) ==
    IF ds = <<>> THEN acc ELSE decimalValue(Tail(ds), 10 * acc + DigitValue(Head(ds)))

\* parseFloat on texts whose numeral is an integer: leading white space is
\* skipped, a sign is read, the longest run of digits is the value, whatever
\* follows is dropped, and a text with no digit there is NaN.
parseFloat(s) ==
    LET t == trimStart(s)
        signed == t # <<>> /\ Head(t) \in {"-", "+"}
        body == IF signed THEN Tail(t) ELSE t
        ds == leadingDigits(body)
        n == decimalValue(ds, 0)
    IN  IF ds = <<>> THEN NaN
        ELSE IF signed /\ Head(t) = "-" THEN Num(0 - n) ELSE Num(n)

\* The characters of the class [\d.,].
IsAmountChar(c) == IsDigit(c) \/ c \in {".", ","}

RECURSIVE leadingAmount(_)
leadingAmount(s) ==
    IF s # <<>> /\ IsAmountChar(Head(s)) THEN <<Head(s)>> \o leadingAmount(Tail(s)) ELSE <<>>

\* s.match(/([\d.,]+)/g): the maximal runs of amount characters, in order
\* (the empty sequence stands for null, the result when there is none).
RECURSIVE matchAmounts(_)
matchAmounts(s) ==
    IF s = <<>> THEN <<>>
    ELSE IF IsAmountChar(Head(s))
         THEN LET run == leadingAmount(s)
              IN  <<run>> \o matchAmounts(SubSeq(s, Len(run) + 1, Len(s)))
         ELSE matchAmounts(Tail(s))

\* s.replace(/([\d.,]+)/g, ""): every run of amount characters removed.
removeAmounts(s) == SelectSeq(s, LAMBDA c : ~IsAmountChar(c))

\* s.replace(",", ""): the first comma removed.
removeFirstComma(s) ==
    LET at == indexOf(s, <<",">>)
    IN  IF at = -1 THEN s ELSE SubSeq(s, 1, at) \o SubSeq(s, at + 2, Len(s))

\* Math.abs of a number, NaN or undefined.
MathAbs(v) ==
    IF IsNum(v) THEN Num(IF v.n < 0 THEN 0 - v.n ELSE v.n) ELSE NaN

\* a ?? b
Nullish(a, b) == IF a = Undefined THEN b ELSE a

\* record.column: undefined when the record has no such column.
Get(record, column) ==
    IF column \in DOMAIN record THEN record[column] ELSE Undefined

---------------------------------------------------------------------------
\* The input: the header's column names and the data lines, each a sequence
\* of cell texts by position.  A line with fewer cells than the header has
\* columns is one the tokenizer rejects.

InvestHeader ==
    <<"date", "type", "ticker", "symbol", "quantity", "pricePerShare",
      "totalAmount", "currency">>
CryptoHeader == <<"date", "type", "symbol", "quantity", "price", "value", "fees">>
\* Two exports with no type column: one of six columns, one of seven.
LedgerHeader == <<"date", "ticker", "quantity", "pricePerShare", "totalAmount", "currency">>
NotesHeader == <<"date", "note", "symbol", "quantity", "price", "value", "fees">>

Headers == {InvestHeader, CryptoHeader, LedgerHeader, NotesHeader}

DateText(i) == <<"2", "0", "2", "3", "-", "0", "1", "-", "0", Digits[i + 1]>>

\* The text of the cell of column `column` on data line i (1-based), for the
\* choice ch of its type label and numeric cells.
CellText(column, ch, i) ==
    CASE column = "date" -> DateText(i)
      [] column = "type" -> ch.type
      [] column = "ticker" -> T_AAPL
      [] column = "symbol" -> T_BTC
      [] column = "quantity" -> ch.quantity
      [] column = "pricePerShare" -> <<"$", "3">>
      [] column = "totalAmount" -> ch.amount
      [] column = "currency" -> T_GBX
      [] column = "price" -> ch.amount
      [] column = "value" -> ch.amount
      [] OTHER -> T_Empty

\* What a data line may hold: a type label with the numeric cells, or too
\* few cells.
LineChoices ==
    {[short |-> FALSE, type |-> t, quantity |-> v.quantity, amount |-> v.amount] :
        t \in TypeTexts, v \in CellVariants}
    \cup {[short |-> TRUE, type |-> T_Empty, quantity |-> T_Empty, amount |-> T_Empty]}

Line(header, ch, i) ==
    IF ch.short THEN <<DateText(i)>>
    ELSE [c \in DOMAIN header |-> CellText(header[c], ch, i)]

\* The input of n data lines under header h with the choices chs.
Input(h, n, chs) == [header |-> h, lines |-> [i \in 1..n |-> Line(h, chs[i], i)]]

---------------------------------------------------------------------------
\* The converter's pure parts.

\* AbstractConverter.processHeaders: the header's names become the keys of
\* the records.
processHeaders(input) == input.header

\* processFileContents: a header of exactly seven fields is a crypto export.
IsCryptoFile(input) == Len(input.header) = 7

\* The action kind of a lower-cased label under the rules of the cast, in
\* their order; <<>> when no rule matches.
MappedAction(action) ==
    IF indexOf(action, L_buy) > -1 \/ indexOf(action, L_stock_split) > -1 THEN L_buy
    ELSE IF indexOf(action, L_sell) > -1 THEN L_sell
    ELSE IF indexOf(action, L_dividend) > -1 THEN L_dividend
    ELSE IF indexOf(action, L_fee) > -1 THEN L_fee
    ELSE <<>>

\* The cast callback of the invest parse, for one cell.
cast(columnValue, column) ==
    IF column = "currency" /\ columnValue = L_GBX THEN Str(L_GBp)
    ELSE IF column = "type" /\ MappedAction(toLocaleLowerCase(columnValue)) # <<>>
         THEN Str(MappedAction(toLocaleLowerCase(columnValue)))
    ELSE IF column \in {"quantity", "pricePerShare", "totalAmount"}
         THEN IF columnValue = <<>> THEN Num(0)
              ELSE parseFloat(trim(removeDollars(columnValue)))
    ELSE Str(columnValue)

detectCurrency(value) ==
    LET currency == toLocaleUpperCase(trim(removeAmounts(value)))
    IN  CASE currency = <<EuroSign>> -> L_EUR
          [] currency = <<"$">> -> L_USD
          [] currency = <<PoundSign>> -> L_GBP
          [] currency = L_SEK -> L_SEK
          [] OTHER -> L_EUR

\* The first amount of a text as a number: match(...)[0].replace(",", "")
\* parsed, 0 for the empty text.
AmountOf(text, ifNull) ==
    LET amounts == matchAmounts(text)
        first == IF amounts = <<>> THEN ifNull ELSE amounts[1]
    IN  IF text # <<>> THEN parseFloat(removeFirstComma(first)) ELSE Num(0)

\* on_record throws a TypeError when it calls a method of undefined or
\* indexes null: a record without type, price, value or fees, or a value or
\* fees text that is not empty and holds no amount.
on_recordThrows(record) ==
    \/ \E c \in {"type", "price", "value", "fees"} : Get(record, c) = Undefined
    \/ \E c \in {"value", "fees"} :
          /\ Get(record, c) # Undefined
          /\ record[c].s # <<>>
          /\ matchAmounts(record[c].s) = <<>>

\* The on_record callback of the crypto parse, for one record.
on_record(record) ==
    LET recordType == toLocaleLowerCase(record.type.s)
        changed == [type |-> Str(IF recordType = L_buy THEN L_buy
                                 ELSE IF recordType = L_sell THEN L_sell
                                 ELSE L_dividend),
                    currency |-> Str(detectCurrency(record.price.s)),
                    price |-> AmountOf(record.price.s, <<"0">>),
                    value |-> AmountOf(record.value.s, <<>>),
                    fees |-> AmountOf(record.fees.s, <<>>),
                    quantity |-> IF Get(record, "quantity") = Undefined THEN NaN
                                 ELSE parseFloat(record.quantity.s)]
    IN  [c \in DOMAIN record \cup DOMAIN changed |->
            IF c \in DOMAIN changed THEN changed[c] ELSE record[c]]

\* The tokenizer (csv-parse) with columns: the record of one line, each cell
\* under its column's name.
RawRecord(columns, line) ==
    [c \in Range(columns) |-> line[CHOOSE i \in DOMAIN columns : columns[i] = c]]

Tokenizable(input) ==
    \A i \in DOMAIN input.lines : Len(input.lines[i]) = Len(processHeaders(input))

NoError == [k |-> "null"]
ParseError(message) == [k |-> "error", message |-> message]

\* parse(input, {columns, cast}, callback): what the callback receives.
parseInvest(input) ==
    IF ~Tokenizable(input)
    THEN [err |-> ParseError("Invalid Record Length"), records |-> Undefined]
    ELSE [err |-> NoError,
          records |-> [k |-> "array",
                       rows |-> [i \in DOMAIN input.lines |->
                                   LET raw == RawRecord(processHeaders(input), input.lines[i])
                                   IN  [c \in DOMAIN raw |-> cast(raw[c], c)]]]]

\* parse(input, {columns, on_record}, callback): what the callback receives.
parseCrypto(input) ==
    LET raws == [i \in DOMAIN input.lines |->
                   LET raw == RawRecord(processHeaders(input), input.lines[i])
                   IN  [c \in DOMAIN raw |-> Str(raw[c])]]
    IN  IF ~Tokenizable(input)
        THEN [err |-> ParseError("Invalid Record Length"), records |-> Undefined]
        ELSE IF \E i \in DOMAIN raws : on_recordThrows(raws[i])
        THEN [err |-> ParseError("TypeError"), records |-> Undefined]
        ELSE [err |-> NoError,
              records |-> [k |-> "array",
                           rows |-> [i \in DOMAIN raws |-> on_record(raws[i])]]]

\* isIgnoredRecord throws a TypeError on a record with no type.
isIgnoredRecordThrows(record) == Get(record, "type") = Undefined

isIgnoredRecord(record) ==
    LET type == toLocaleLowerCase(record.type.s)
    IN  \E t \in DOMAIN ignoredRecordTypes : indexOf(type, ignoredRecordTypes[t]) > -1

IsFee(record) == toLocaleLowerCase(record.type.s) = L_fee

\* The enumeration GhostfolioOrderType, indexed by a record's type.
GhostfolioOrderType(type) ==
    CASE type = Str(L_buy) -> Str(<<"B", "U", "Y">>)
      [] type = Str(L_sell) -> Str(<<"S", "E", "L", "L">>)
      [] type = Str(L_dividend) -> Str(<<"D", "I", "V", "I", "D", "E", "N", "D">>)
      [] type = Str(L_fee) -> Str(<<"F", "E", "E">>)
      [] OTHER -> Undefined

\* dayjs(date).format("YYYY-MM-DDTHH:mm:ssZ"), kept as the application.
dayjsFormat(date) == [k |-> "formatted", of |-> date, as |-> "YYYY-MM-DDTHH:mm:ssZ"]

\* A value inside a template literal.
TemplateText(v) ==
    IF IsStr(v) THEN v.s ELSE <<"u", "n", "d", "e", "f", "i", "n", "e", "d">>

AccountId == "process.env.GHOSTFOLIO_ACCOUNT_ID"

\* A variant: the fee keeps the sign of the total amount.
FeeActivitySigned(record) ==
    [accountId |-> AccountId,
     comment |-> Str(L_Revolut \o toLocaleLowerCase(record.type.s)),
     fee |-> Get(record, "totalAmount"),
     quantity |-> Num(1),
     type |-> GhostfolioOrderType(record.type),
     unitPrice |-> Num(0),
     currency |-> Get(record, "currency"),
     dataSource |-> "MANUAL",
     date |-> dayjsFormat(Get(record, "date")),
     symbol |-> Str(L_Revolut \o toLocaleLowerCase(record.type.s))]

FeeActivity(record) ==
    [accountId |-> AccountId,
     comment |-> Str(L_Revolut \o toLocaleLowerCase(record.type.s)),
     fee |-> MathAbs(Get(record, "totalAmount")),
     quantity |-> Num(1),
     type |-> GhostfolioOrderType(record.type),
     unitPrice |-> Num(0),
     currency |-> Get(record, "currency"),
     dataSource |-> "MANUAL",
     date |-> dayjsFormat(Get(record, "date")),
     symbol |-> Str(L_Revolut \o toLocaleLowerCase(record.type.s))]

DividendQuantity(record) == Nullish(Get(record, "quantity"), Num(1))

DividendUnitPrice(record) == MathAbs(Nullish(Get(record, "totalAmount"), Num(1)))

SecurityActivity(record, security) ==
    [accountId |-> AccountId,
     comment |-> Str(<<>>),
     fee |-> Num(0),
     quantity |-> IF record.type = Str(L_dividend) THEN DividendQuantity(record)
                  ELSE Get(record, "quantity"),
     type |-> GhostfolioOrderType(record.type),
     unitPrice |-> IF record.type = Str(L_dividend) THEN DividendUnitPrice(record)
                   ELSE Nullish(Get(record, "pricePerShare"), Get(record, "price")),
     currency |-> Get(record, "currency"),
     dataSource |-> "YAHOO",
     date |-> dayjsFormat(Get(record, "date")),
     symbol |-> security.symbol]

\* The key the lookup is asked for: record.ticker ?? `${symbol}-${currency}`.
LookupKey(record) ==
    Nullish(Get(record, "ticker"),
            Str(TemplateText(Get(record, "symbol")) \o <<"-">>
                \o TemplateText(Get(record, "currency"))))

\* The securities the lookup service may answer a key with.
Securities(key) == {[symbol |-> key]}

---------------------------------------------------------------------------
\* The state.

VARIABLES
    input,        \* the text handed to processFileContents
    pc,           \* where the conversion stands
    err,          \* the tokenizer's error, handed to processRevolutFile
    records,      \* the tokenizer's records, handed to processRevolutFile
    idx,          \* the loop's index (0-based)
    activities,   \* result.activities
    bar,          \* the number of bar1.increment() calls
    pending,      \* the rows whose getSecurity call has not completed
    lookups,      \* the rows getSecurity was called for, in call order
    outcome,      \* per row, how its getSecurity call ended
    successCalls, \* the arguments of the successCallback calls, in order
    errorCalls    \* the arguments of the errorCallback calls, in order

vars == <<input, pc, err, records, idx, activities, bar, pending, lookups,
          outcome, successCalls, errorCalls>>

RowIndexes == 0..(MaxRows - 1)

Rows == records.rows

\* records[idx]
Record == Rows[idx + 1]

Init ==
    /\ \E h \in Headers, n \in 0..MaxRows :
          \E chs \in [1..n -> LineChoices] : input = Input(h, n, chs)
    /\ pc = "start"
    /\ err = NoError
    /\ records = Undefined
    /\ idx = 0
    /\ activities = <<>>
    /\ bar = 0
    /\ pending = {}
    /\ lookups = <<>>
    /\ outcome = [i \in RowIndexes |-> "none"]
    /\ successCalls = <<>>
    /\ errorCalls = <<>>

\* processFileContents on an invest file: the tokenizer runs and its
\* callback is due.
ProcessInvestFileContents ==
    /\ pc = "start"
    /\ ~IsCryptoFile(input)
    /\ err' = parseInvest(input).err
    /\ records' = parseInvest(input).records
    /\ pc' = "parsed"
    /\ UNCHANGED <<input, idx, activities, bar, pending, lookups, outcome,
                   successCalls, errorCalls>>

\* processFileContents on a crypto file.
ProcessCryptoFileContents ==
    /\ pc = "start"
    /\ IsCryptoFile(input)
    /\ err' = parseCrypto(input).err
    /\ records' = parseCrypto(input).records
    /\ pc' = "parsed"
    /\ UNCHANGED <<input, idx, activities, bar, pending, lookups, outcome,
                   successCalls, errorCalls>>

\* A variant: a header-only file is not taken for a failure.
ParsingFailedUnlessEmpty ==
    IF err # NoError THEN TRUE ELSE records = Undefined

\* err || records === undefined || records.length === 0
ParsingFailed ==
    IF err # NoError THEN TRUE
    ELSE IF records = Undefined THEN TRUE
    ELSE Len(records.rows) = 0

ParsingErrorMessage ==
    IF err # NoError
    THEN <<"An error ocurred while parsing!", " Details: ", err.message>>
    ELSE <<"An error ocurred while parsing!">>

\* processRevolutFile, parsing failed: the error callback gets the message.
ReportParsingFailed ==
    /\ pc = "parsed"
    /\ ParsingFailed
    /\ errorCalls' = Append(errorCalls, [message |-> ParsingErrorMessage])
    /\ pc' = "done"
    /\ UNCHANGED <<input, err, records, idx, activities, bar, pending, lookups,
                   outcome, successCalls>>

\* processRevolutFile, parsing succeeded: the result and the bar are
\* created and the loop starts.
StartProcessing ==
    /\ pc = "parsed"
    /\ ~ParsingFailed
    /\ activities' = <<>>
    /\ bar' = 0
    /\ idx' = 0
    /\ pc' = "loop"
    /\ UNCHANGED <<input, err, records, pending, lookups, outcome,
                   successCalls, errorCalls>>

InLoop == pc = "loop" /\ idx < Len(Rows)

\* isIgnoredRecord throws on a record without type: the promise of
\* processRevolutFile is rejected, and nothing handles the rejection.
RecordTypeError ==
    /\ InLoop
    /\ isIgnoredRecordThrows(Record)
    /\ pc' = "rejected"
    /\ UNCHANGED <<input, err, records, idx, activities, bar, pending, lookups,
                   outcome, successCalls, errorCalls>>

\* An ignored record: the bar moves, the loop continues.
SkipIgnoredRecord ==
    /\ InLoop
    /\ ~isIgnoredRecordThrows(Record)
    /\ isIgnoredRecord(Record)
    /\ bar' = bar + 1
    /\ idx' = idx + 1
    /\ UNCHANGED <<input, pc, err, records, activities, pending, lookups,
                   outcome, successCalls, errorCalls>>

\* A fee: its activity is added at once.
AddFee ==
    /\ InLoop
    /\ ~isIgnoredRecordThrows(Record)
    /\ ~isIgnoredRecord(Record)
    /\ IsFee(Record)
    /\ activities' = Append(activities, FeeActivity(Record))
    /\ bar' = bar + 1
    /\ idx' = idx + 1
    /\ UNCHANGED <<input, pc, err, records, pending, lookups, outcome,
                   successCalls, errorCalls>>

NeedsSecurity ==
    /\ InLoop
    /\ ~isIgnoredRecordThrows(Record)
    /\ ~isIgnoredRecord(Record)
    /\ ~IsFee(Record)

\* A variant: getSecurity is called and not awaited.
CallGetSecurityUnawaited ==
    /\ NeedsSecurity
    /\ pending' = pending \cup {idx}
    /\ lookups' = Append(lookups, idx)
    /\ idx' = idx + 1
    /\ UNCHANGED <<input, pc, err, records, activities, bar, outcome,
                   successCalls, errorCalls>>

\* getSecurity is called and awaited: the loop is suspended on it.
AwaitGetSecurity ==
    /\ NeedsSecurity
    /\ pending' = pending \cup {idx}
    /\ lookups' = Append(lookups, idx)
    /\ pc' = "await"
    /\ UNCHANGED <<input, err, records, idx, activities, bar, outcome,
                   successCalls, errorCalls>>

\* A variant: the lookup's error is swallowed and the loop continues.
GetSecurityThrowsSwallowed ==
    /\ pc = "await"
    /\ pending' = pending \ {idx}
    /\ outcome' = [outcome EXCEPT ![idx] = "throws"]
    /\ bar' = bar + 1
    /\ idx' = idx + 1
    /\ pc' = "loop"
    /\ UNCHANGED <<input, err, records, activities, lookups, successCalls,
                   errorCalls>>

\* The lookup throws: the error goes to the error callback and
\* processRevolutFile returns.
GetSecurityThrows ==
    /\ pc = "await"
    /\ pending' = pending \ {idx}
    /\ outcome' = [outcome EXCEPT ![idx] = "throws"]
    /\ errorCalls' = Append(errorCalls, [message |-> <<"lookup failed">>])
    /\ pc' = "done"
    /\ UNCHANGED <<input, err, records, idx, activities, bar, lookups,
                   successCalls>>

\* A variant: a lookup that finds nothing ends the run as an error does.
GetSecurityNoMatchFatal ==
    /\ pc = "await"
    /\ pending' = pending \ {idx}
    /\ outcome' = [outcome EXCEPT ![idx] = "absent"]
    /\ errorCalls' = Append(errorCalls, [message |-> <<"no match">>])
    /\ pc' = "done"
    /\ UNCHANGED <<input, err, records, idx, activities, bar, lookups,
                   successCalls>>

\* The lookup finds nothing: logged, the bar moves, the loop continues.
GetSecurityNoMatch ==
    /\ pc = "await"
    /\ pending' = pending \ {idx}
    /\ outcome' = [outcome EXCEPT ![idx] = "absent"]
    /\ bar' = bar + 1
    /\ idx' = idx + 1
    /\ pc' = "loop"
    /\ UNCHANGED <<input, err, records, activities, lookups, successCalls,
                   errorCalls>>

\* A variant: the activity is put in front of the earlier ones.
GetSecurityMatchUnshift ==
    /\ pc = "await"
    /\ \E security \in Securities(LookupKey(Record)) :
          activities' = <<SecurityActivity(Record, security)>> \o activities
    /\ pending' = pending \ {idx}
    /\ outcome' = [outcome EXCEPT ![idx] = "match"]
    /\ bar' = bar + 1
    /\ idx' = idx + 1
    /\ pc' = "loop"
    /\ UNCHANGED <<input, err, records, lookups, successCalls, errorCalls>>

\* The lookup finds a security: the record's activity is added.
GetSecurityMatch ==
    /\ pc = "await"
    /\ \E security \in Securities(LookupKey(Record)) :
          activities' = Append(activities, SecurityActivity(Record, security))
    /\ pending' = pending \ {idx}
    /\ outcome' = [outcome EXCEPT ![idx] = "match"]
    /\ bar' = bar + 1
    /\ idx' = idx + 1
    /\ pc' = "loop"
    /\ UNCHANGED <<input, err, records, lookups, successCalls, errorCalls>>

\* After the last record the result goes to the success callback.
Finish ==
    /\ pc = "loop"
    /\ idx >= Len(Rows)
    /\ successCalls' = Append(successCalls, [version |-> "v0", activities |-> activities])
    /\ pc' = "done"
    /\ UNCHANGED <<input, err, records, idx, activities, bar, pending, lookups,
                   outcome, errorCalls>>

Next ==
    \/ ProcessInvestFileContents
    \/ ProcessCryptoFileContents
    \/ ReportParsingFailed
    \/ StartProcessing
    \/ RecordTypeError
    \/ SkipIgnoredRecord
    \/ AddFee
    \/ AwaitGetSecurity
    \/ GetSecurityThrows
    \/ GetSecurityNoMatch
    \/ GetSecurityMatch
    \/ Finish

Spec == Init /\ [][Next]_vars

---------------------------------------------------------------------------
\* Properties.

\* The number of records the tokenizer handed over.
RowCount == IF records = Undefined THEN 0 ELSE Len(records.rows)

\* The rows the loop is through with.
RowsDone == {k \in RowIndexes : k < idx}

HasColumn(column) == column \in Range(input.header)

\* The text of a column on data line k (0-based), as the input has it.
RawCell(k, column) ==
    input.lines[k + 1][CHOOSE i \in DOMAIN input.header : input.header[i] = column]

\* The positions in result.activities of the activities made from row k.
ActivitiesOf(k) ==
    {i \in DOMAIN activities : activities[i].date.of = Rows[k + 1].date}

Ended == pc \in {"done", "rejected"}

ContainsIgnoredWord(text) ==
    \E t \in DOMAIN ignoredRecordTypes :
        \E i \in 1..Len(text) :
            /\ i + Len(ignoredRecordTypes[t]) - 1 <= Len(text)
            /\ \A j \in 1..Len(ignoredRecordTypes[t]) :
                  LowerChar(text[i + j - 1]) = ignoredRecordTypes[t][j]

\* C1: a call of processFileContents never invokes the two continuations
\* more than once in all, and when the run has ended exactly one of them has
\* been invoked, once.
C1_ExactlyOneContinuation ==
    /\ Len(successCalls) + Len(errorCalls) <= 1
    /\ Ended => Len(successCalls) + Len(errorCalls) = 1

\* C2: once the lookup of row k has thrown, the error callback has been
\* invoked exactly once and the success callback never, the loop stands at k,
\* no later row has a lookup or an activity, and the activities of the
\* earlier rows are handed to nobody.
C2_LookupErrorIsFatal ==
    \A k \in RowIndexes :
        outcome[k] = "throws" =>
            /\ Len(errorCalls) = 1
            /\ successCalls = <<>>
            /\ pc = "done"
            /\ idx = k
            /\ pending = {}
            /\ \A j \in RowIndexes :
                  (j > k /\ j < RowCount) =>
                      /\ outcome[j] = "none"
                      /\ j \notin Range(lookups)
                      /\ ActivitiesOf(j) = {}
            /\ ActivitiesOf(k) = {}

C2_Witness ==
    \E k \in RowIndexes : outcome[k] = "throws" /\ k + 1 < RowCount

\* C3: a row whose type text in the input contains one of the ignored words,
\* in any case, has no lookup and no activity.
C3_IgnoredByOriginalType ==
    (pc \notin {"start", "parsed"} /\ RowCount > 0 /\ HasColumn("type")) =>
        \A k \in RowIndexes :
            (k < RowCount /\ ContainsIgnoredWord(RawCell(k, "type"))) =>
                /\ k \notin Range(lookups)
                /\ ActivitiesOf(k) = {}

\* C4: a row the loop is through with, not ignored and of type fee, has
\* exactly one activity, of quantity 1, unit price 0, data source MANUAL and
\* a fee that is the absolute value of its total amount, and no lookup.
C4_FeeRows ==
    \A k \in RowsDone :
        (~isIgnoredRecord(Rows[k + 1]) /\ Rows[k + 1].type = Str(L_fee)) =>
            /\ Cardinality(ActivitiesOf(k)) = 1
            /\ \A i \in ActivitiesOf(k) :
                  /\ activities[i].quantity = Num(1)
                  /\ activities[i].unitPrice = Num(0)
                  /\ activities[i].dataSource = "MANUAL"
                  /\ IsNum(activities[i].fee)
                  /\ activities[i].fee.n >= 0
                  /\ activities[i].fee.n \in {Rows[k + 1].totalAmount.n,
                                              0 - Rows[k + 1].totalAmount.n}
            /\ k \notin Range(lookups)
            /\ outcome[k] = "none"

C4_Witness ==
    \E k \in RowsDone :
        /\ Rows[k + 1].type = Str(L_fee)
        /\ Rows[k + 1].totalAmount.n < 0
        /\ ActivitiesOf(k) # {}

\* C5: a row whose lookup found nothing has no activity and the loop has
\* gone on past it; no error is reported unless a later lookup threw, and a
\* run whose rows all found nothing ends in the success callback.
C5_NoMatchIsSkipped ==
    /\ \A k \in RowIndexes :
          outcome[k] = "absent" =>
              /\ ActivitiesOf(k) = {}
              /\ idx > k
              /\ pc \in {"loop", "await", "done"}
              /\ errorCalls # <<>> =>
                    \E j \in RowIndexes : j > k /\ outcome[j] = "throws"
              /\ (pc = "done" /\ errorCalls = <<>>) => Len(successCalls) = 1
    /\ (RowCount > 0 /\ \A k \in RowIndexes : k < RowCount => outcome[k] = "absent") =>
          /\ pc \in {"loop", "done"}
          /\ idx = RowCount
          /\ errorCalls = <<>>
          /\ pc = "done" => Len(successCalls) = 1 /\ successCalls[1].activities = <<>>

C5_Witness ==
    /\ RowCount = 2
    /\ \A k \in RowIndexes : k < RowCount => outcome[k] = "absent"
    /\ pc = "done"
    /\ Len(successCalls) = 1

\* The rows among the first n that the loop neither ignored nor found
\* unmatched, in row order.
RECURSIVE KeptRows(_)
KeptRows(n) ==
    IF n = 0 THEN <<>>
    ELSE IF isIgnoredRecord(Rows[n]) \/ outcome[n - 1] = "absent"
         THEN KeptRows(n - 1)
         ELSE Append(KeptRows(n - 1), n - 1)

\* C6: at every point of the loop the activities are, in row order, one for
\* each row done that was neither ignored nor unmatched, and the success
\* callback gets exactly that sequence for all the rows.
C6_ActivitiesInRowOrder ==
    /\ pc \in {"loop", "await", "done", "rejected"} /\ RowCount > 0 /\ err = NoError =>
          LET kept == KeptRows(idx)
          IN  /\ Len(activities) = Len(kept)
              /\ \A i \in DOMAIN activities :
                    activities[i].date.of = Rows[kept[i] + 1].date
    /\ successCalls # <<>> =>
          /\ idx = RowCount
          /\ successCalls[1].activities = activities

C6_Witness ==
    /\ successCalls # <<>>
    /\ Len(successCalls[1].activities) = 2

\* C7: when the tokenizer reported an error or handed over no rows, no
\* lookup is made, no export is delivered, and the error callback gets one
\* error, whose message names the parsing failure and the tokenizer's detail.
C7_ParseFailure ==
    (pc # "start" /\ (err # NoError \/ RowCount = 0)) =>
        /\ successCalls = <<>>
        /\ lookups = <<>>
        /\ activities = <<>>
        /\ pc \in {"parsed", "done"}
        /\ Len(errorCalls) = (IF pc = "done" THEN 1 ELSE 0)
        /\ pc = "done" =>
              /\ errorCalls[1].message[1] = "An error ocurred while parsing!"
              /\ err # NoError => errorCalls[1].message[Len(errorCalls[1].message)] = err.message

C7_Witness ==
    /\ pc = "done"
    /\ err = NoError
    /\ records # Undefined
    /\ RowCount = 0
    /\ Len(errorCalls) = 1

\* C8: at most one lookup is outstanding, it is the lookup of the row the
\* loop stands at, lookups are begun in row order, and while the lookup of
\* row i is outstanding every earlier row is fully handled (ignored, a fee,
\* matched or unmatched, its progress reported).
C8_Sequential ==
    /\ Cardinality(pending) <= 1
    /\ pending # {} => (pending = {idx} /\ pc = "await")
    /\ pc = "await" => pending = {idx}
    /\ \A i, j \in DOMAIN lookups : i < j => lookups[i] < lookups[j]
    /\ \A i \in pending :
          /\ bar = i
          /\ \A j \in RowIndexes :
                j < i =>
                    \/ outcome[j] \in {"match", "absent"}
                    \/ (outcome[j] = "none" /\ j \notin Range(lookups))

C8_Witness ==
    /\ pending = {1}
    /\ outcome[0] \in {"match", "absent"}

\* C9: the activity of a dividend row whose security is resolved (a row
\* whose label is not one of the ignored ones) has quantity 1 when the row's
\* quantity cell is empty, and the absolute total amount as unit price, 1
\* when the row has no total amount.
C9_DividendDefaults ==
    \A k \in RowsDone :
        (outcome[k] = "match" /\ Rows[k + 1].type = Str(L_dividend)
            /\ ~ContainsIgnoredWord(RawCell(k, "type"))) =>
            \A i \in ActivitiesOf(k) :
                /\ RawCell(k, "quantity") = <<>> => activities[i].quantity = Num(1)
                /\ (~HasColumn("totalAmount") \/ RawCell(k, "totalAmount") = <<>>)
                      => activities[i].unitPrice = Num(1)
                /\ (HasColumn("totalAmount") /\ RawCell(k, "totalAmount") # <<>>)
                      => activities[i].unitPrice = MathAbs(Rows[k + 1].totalAmount)

\* C10: every activity's type is one of the four action kinds.
C10_ActivityTypes ==
    \A i \in DOMAIN activities :
        activities[i].type \in
            {GhostfolioOrderType(Str(L_buy)), GhostfolioOrderType(Str(L_sell)),
             GhostfolioOrderType(Str(L_dividend)), GhostfolioOrderType(Str(L_fee))}

====
